---------------------------- MODULE Spec2Model ----------------------------
(***************************************************************************)
(* BLAKE2s as implemented in sys/crypto/blake2s.c (RIOT).                  *)
(*                                                                         *)
(* A 32-bit word is the pair <<lo, hi>> of its two 16-bit halves, so that  *)
(* every intermediate value stays below 2^31.  Memory is a sequence of     *)
(* bytes (0..255).  The host byte order is a parameter of the build: the   *)
(* code reads and writes words through uint32_t pointers.                  *)
(***************************************************************************)
EXTENDS Integers, Sequences, FiniteSets, TLC

VARIABLES
    bigEndian,  \* byte order of the host the code was built for
    pc,         \* where the caller is: "idle", "streaming", "finalized", ...
    S,          \* the blake2s_state object
    out,        \* the caller's output buffer
    ret,        \* return value of the last call
    args,       \* arguments of the call that created the session
    fed,        \* number of message bytes handed to blake2s_update so far
    chunks      \* how many non-empty chunks they came in: "none", "one", "many"

vars == <<bigEndian, pc, S, out, ret, args, fed, chunks>>

---------------------------------------------------------------------------
(* Bounds of the model *)

\* largest number of message bytes one session is fed
MaxFed == 131
\* largest value tried for the outlen and keylen arguments of the init calls
MaxParam == 34
\* largest outlen / keylen tried by the one-shot calls
MaxHashParam == 33
\* largest number of bytes counted from one starting value of the counter
MaxCounted == 128
\* largest inlen of the Update call whose loop is followed iteration by iteration
MaxLoopInlen == 193

---------------------------------------------------------------------------
(* Constants of crypto/blake2s.h *)

BLAKE2S_BLOCKBYTES == 64
BLAKE2S_OUTBYTES == 32
BLAKE2S_KEYBYTES == 32
BLAKE2S_SALTBYTES == 8
BLAKE2S_PERSONALBYTES == 8

RetOk == 0
RetErr == -1

---------------------------------------------------------------------------
(* 32-bit unsigned arithmetic *)

Half == 256 * 256

\* the word hi * 2^16 + lo
W32(hi, lo) == <<lo, hi>>

\* a number below 2^31 as a uint32_t
ToWord(n) == <<n % Half, n \div Half>>

\* the value of a word whose top bit is clear
WordVal(w) == w[1] + Half * w[2]

Zero32 == <<0, 0>>

\* ~0U
AllOnes32 == <<Half - 1, Half - 1>>

RECURSIVE BitXor(_, _, _)
BitXor(a, b, k) ==
    IF k = 0 THEN 0
    ELSE ((a + b) % 2) + 2 * BitXor(a \div 2, b \div 2, k - 1)

\* a ^ b on 4-bit operands, tabulated
XorTab == [i \in 0..255 |-> BitXor(i \div 16, i % 16, 4)]

Xor8(a, b) ==
    XorTab[(a \div 16) * 16 + (b \div 16)] * 16 + XorTab[(a % 16) * 16 + (b % 16)]

Xor16(a, b) == Xor8(a \div 256, b \div 256) * 256 + Xor8(a % 256, b % 256)

\* a ^ b
Xor32(a, b) == <<Xor16(a[1], b[1]), Xor16(a[2], b[2])>>

\* a + b, wrapping
Add32(a, b) ==
    LET l == a[1] + b[1]
    IN  <<l % Half, (a[2] + b[2] + l \div Half) % Half>>

\* a < b
Less32(a, b) == a[2] < b[2] \/ (a[2] = b[2] /\ a[1] < b[1])

Pow2(c) == IF c = 7 THEN 128 ELSE IF c = 8 THEN 256 ELSE 4096

\* (w >> c) | (w << (32 - c)), for the rotation distances the rounds use
rotr32(w, c) ==
    IF c = 16 THEN <<w[2], w[1]>>
    ELSE LET p == Pow2(c)
             q == Half \div p
         IN  <<(w[1] \div p) + (w[2] % p) * q, (w[2] \div p) + (w[1] % p) * q>>

---------------------------------------------------------------------------
(* Constant tables *)

blake2s_IV == <<
    W32(27145, 58983), W32(47975, 44677), W32(15470, 62322), W32(42319, 62778),
    W32(20750, 21119), W32(39685, 26764), W32(8067, 55723), W32(23520, 52505) >>

blake2s_sigma == <<
    <<  0,  1,  2,  3,  4,  5,  6,  7,  8,  9, 10, 11, 12, 13, 14, 15 >>,
    << 14, 10,  4,  8,  9, 15, 13,  6,  1, 12,  0,  2, 11,  7,  5,  3 >>,
    << 11,  8, 12,  0,  5,  2, 15, 13, 10, 14,  3,  6,  7,  1,  9,  4 >>,
    <<  7,  9,  3,  1, 13, 12, 11, 14,  2,  6,  5, 10,  4,  0, 15,  8 >>,
    <<  9,  0,  5,  7,  2,  4, 10, 15, 14,  1, 11, 12,  6,  8,  3, 13 >>,
    <<  2, 12,  6, 10,  0, 11,  8,  3,  4, 13,  7,  5, 15, 14,  1,  9 >>,
    << 12,  5,  1, 15, 14, 13,  4, 10,  0,  7,  6,  3,  9,  2,  8, 11 >>,
    << 13, 11,  7, 14, 12,  1,  3,  9,  5,  0, 15,  4,  8,  6,  2, 10 >>,
    <<  6, 15, 14,  9, 11,  3,  0,  8, 12,  2, 13,  7,  1,  4, 10,  5 >>,
    << 10,  2,  8,  4,  7,  6,  1,  5, 15, 11,  9, 14,  3, 12, 13,  0 >> >>

---------------------------------------------------------------------------
(* Memory *)

\* a pointer is either NULL or the bytes it points to
NULL == [null |-> TRUE, mem |-> <<>>]
Ptr(bytes) == [null |-> FALSE, mem |-> bytes]

\* n zero bytes
Zeros(n) == [i \in 1..n |-> 0]

\* memcpy(dst + off, src, n): dst afterwards.  A write that runs past the
\* end of dst does not change dst; the callers record how far they write.
memcpy(dst, off, src, n) ==
    [i \in 1..Len(dst) |-> IF i > off /\ i <= off + n THEN src[i - off] ELSE dst[i]]

\* memset(dst + off, c, n): dst afterwards
memset(dst, off, c, n) ==
    [i \in 1..Len(dst) |-> IF i > off /\ i <= off + n THEN c ELSE dst[i]]

\* the bytes src[off], ..., src[off + n - 1] (off counted from 0)
Bytes(src, off, n) == [i \in 1..n |-> src[off + i]]

\* *(uint32_t *)(src) on the four bytes at src + off: the host's byte order
load32(src, off) ==
    IF bigEndian
    THEN W32(src[off + 1] * 256 + src[off + 2], src[off + 3] * 256 + src[off + 4])
    ELSE W32(src[off + 4] * 256 + src[off + 3], src[off + 2] * 256 + src[off + 1])

\* *(uint32_t *)(dst) = w: the four bytes written, in the host's byte order
store32(w) ==
    IF bigEndian
    THEN <<w[2] \div 256, w[2] % 256, w[1] \div 256, w[1] % 256>>
    ELSE <<w[1] % 256, w[1] \div 256, w[2] % 256, w[2] \div 256>>

\* store48 of a value below 2^16: six bytes, least significant first
store48(w) == <<w % 256, w \div 256, 0, 0, 0, 0>>

---------------------------------------------------------------------------
(* The state object.  log and hiwater are history fields: log lists the   *)
(* compressions performed on the state since its initialization (the      *)
(* block passed, the first 64 bytes of buf at that moment, and the        *)
(* counter and flag words the compression read), hiwater is the largest   *)
(* offset into buf that any copy or fill has written up to.               *)

BufBytes == 2 * BLAKE2S_BLOCKBYTES

\* memset(S, 0, sizeof(blake2s_state))
ZeroState ==
    [ h         |-> [i \in 1..8 |-> Zero32],
      t         |-> <<Zero32, Zero32>>,
      f         |-> <<Zero32, Zero32>>,
      buf       |-> Zeros(BufBytes),
      buflen    |-> 0,
      last_node |-> 0,
      log       |-> <<>>,
      hiwater   |-> 0 ]

Max(a, b) == IF a > b THEN a ELSE b

blake2s_set_lastnode(St) == [St EXCEPT !.f[2] = AllOnes32]

\* (mutant) the last-node flag is set without looking at S->last_node
blake2s_set_lastblock_AlwaysNode(St) ==
    LET S1 == blake2s_set_lastnode(St)
    IN  [S1 EXCEPT !.f[1] = AllOnes32]

blake2s_set_lastblock(St) ==
    LET S1 == IF St.last_node # 0 THEN blake2s_set_lastnode(St) ELSE St
    IN  [S1 EXCEPT !.f[1] = AllOnes32]

\* (mutant) the carry into t[1] is dropped
blake2s_increment_counter_NoCarry(St, inc) ==
    [St EXCEPT !.t = <<Add32(St.t[1], inc), St.t[2]>>]

blake2s_increment_counter(St, inc) ==
    LET t0 == Add32(St.t[1], inc)
        t1 == Add32(St.t[2], IF Less32(t0, inc) THEN ToWord(1) ELSE Zero32)
    IN  [St EXCEPT !.t = <<t0, t1>>]

\* the 32 bytes of blake2s_param as the two init functions fill them
ParamBlock(outlen, keylen) ==
    <<outlen, keylen, 1, 1>> \o store32(Zero32) \o store48(0) \o <<0, 0>>
        \o Zeros(BLAKE2S_SALTBYTES) \o Zeros(BLAKE2S_PERSONALBYTES)

blake2s_init0 == [ZeroState EXCEPT !.h = blake2s_IV]

blake2s_init_param(P) ==
    LET S0 == blake2s_init0
    IN  [S0 EXCEPT !.h = [i \in 1..8 |-> Xor32(S0.h[i], load32(P, 4 * (i - 1)))]]

---------------------------------------------------------------------------
(* Compression *)

\* The four kinds of step of G on the quadruple q = <<a, b, c, d>>:
\* a = a + b + x;  d = rotr32(d ^ a, n);  c = c + d;  b = rotr32(b ^ c, n)
GAdd(q, x) == <<Add32(Add32(q[1], q[2]), x), q[2], q[3], q[4]>>
GRotD(q, n) == <<q[1], q[2], q[3], rotr32(Xor32(q[4], q[1]), n)>>
GAddC(q) == <<q[1], q[2], Add32(q[3], q[4]), q[4]>>
GRotB(q, n) == <<q[1], rotr32(Xor32(q[2], q[3]), n), q[3], q[4]>>

\* the eight steps of G, with message words x and y
GMix(q, x, y) ==
    GRotB(GAddC(GRotD(GAdd(GRotB(GAddC(GRotD(GAdd(q, x), 16)), 12), y), 8)), 7)

\* v with the words at a, b, c, d replaced by those of q
SetQuad(v, a, b, c, d, q) ==
    [v EXCEPT ![a] = q[1], ![b] = q[2], ![c] = q[3], ![d] = q[4]]

\* G(r, i, a, b, c, d) of blake2s.h, on the working vector v (indices from 1)
G(v, m, r, i, a, b, c, d) ==
    SetQuad(v, a, b, c, d,
            GMix(<<v[a], v[b], v[c], v[d]>>,
                 m[blake2s_sigma[r + 1][2 * i + 1] + 1],
                 m[blake2s_sigma[r + 1][2 * i + 2] + 1]))

\* BLAKE2S_ROUND(r) of blake2s.h: four columns, then four diagonals
BLAKE2S_ROUND(r, v, m) ==
    IF Len(v) # 16 THEN v
    ELSE G(G(G(G(G(G(G(G(v, m, r, 0, 1, 5,  9, 13),
                           m, r, 1, 2, 6, 10, 14),
                         m, r, 2, 3, 7, 11, 15),
                       m, r, 3, 4, 8, 12, 16),
                     m, r, 4, 1, 6, 11, 16),
                   m, r, 5, 2, 7, 12, 13),
                 m, r, 6, 3, 8,  9, 14),
               m, r, 7, 4, 5, 10, 15)

\* BLAKE2S_ROUND(0); ...; BLAKE2S_ROUND(n - 1)
RECURSIVE Rounds(_, _, _)
Rounds(n, v, m) ==
    IF n = 0 THEN v ELSE BLAKE2S_ROUND(n - 1, Rounds(n - 1, v, m), m)

NumRounds == 10

\* m[i] = load32(block + i * sizeof(m[i]))
MessageWords(block) == [i \in 1..16 |-> load32(block, 4 * (i - 1))]

\* the working vector before the rounds
WorkVector(St) ==
    St.h \o << blake2s_IV[1], blake2s_IV[2], blake2s_IV[3], blake2s_IV[4],
               Xor32(St.t[1], blake2s_IV[5]), Xor32(St.t[2], blake2s_IV[6]),
               Xor32(St.f[1], blake2s_IV[7]), Xor32(St.f[2], blake2s_IV[8]) >>

\* S->h[i] = S->h[i] ^ v[i] ^ v[i + 8]
FoldVector(h, w) == [i \in 1..8 |-> Xor32(Xor32(h[i], w[i]), w[i + 8])]

blake2s_compress(St, block) ==
    [St EXCEPT
        !.h = FoldVector(St.h, Rounds(NumRounds, WorkVector(St), MessageWords(block))),
        !.log = Append(@, [ block  |-> block,
                            front  |-> Bytes(St.buf, 0, BLAKE2S_BLOCKBYTES),
                            buflen |-> St.buflen,
                            t      |-> St.t,
                            f      |-> St.f ])]

---------------------------------------------------------------------------
(* Update and Finalize *)

\* the buffer is written at offsets off .. off + n - 1
Wrote(St, off, n) == [St EXCEPT !.hiwater = Max(@, IF n > 0 THEN off + n ELSE 0)]

\* memcpy(S->buf + left, in, n)
FillBuffer(St, left, in, n) ==
    Wrote([St EXCEPT !.buf = memcpy(St.buf, left, in, n)], left, n)

\* (mutant) the shift starts one byte early: memcpy(S->buf, S->buf + BLAKE2S_BLOCKBYTES - 1, n)
ShiftBuffer_OffByOne(St, n) ==
    Wrote([St EXCEPT !.buf = memcpy(St.buf, 0, Bytes(St.buf, BLAKE2S_BLOCKBYTES - 1, n), n)], 0, n)

\* memcpy(S->buf, S->buf + BLAKE2S_BLOCKBYTES, n)
ShiftBuffer(St, n) ==
    Wrote([St EXCEPT !.buf = memcpy(St.buf, 0, Bytes(St.buf, BLAKE2S_BLOCKBYTES, n), n)], 0, n)

\* S->buflen += n
AddBuflen(St, n) == [St EXCEPT !.buflen = @ + n]

\* S->buflen -= n
SubBuflen(St, n) == [St EXCEPT !.buflen = @ - n]

\* blake2s_compress(S, S->buf)
CompressBuf(St) == blake2s_compress(St, Bytes(St.buf, 0, BLAKE2S_BLOCKBYTES))

\* (mutant) the buffer is flushed as soon as the input fills it: inlen >= fill
Overfull_Eager(inlen, fill) == inlen >= fill

\* the test of the loop body: is there more input than room in the buffer?
Overfull(inlen, fill) == inlen > fill

\* (mutant) the room in the buffer is one too large
Fill_OffByOne(left) == 2 * BLAKE2S_BLOCKBYTES - left + 1

\* size_t fill = 2 * BLAKE2S_BLOCKBYTES - left
Fill(left) == 2 * BLAKE2S_BLOCKBYTES - left

\* (mutant) the shifted buffer keeps its length: S->buflen -= BLAKE2S_BLOCKBYTES is missing
UpdateFull_NoShrink(St, in, fill) ==
    ShiftBuffer(
        CompressBuf(
            blake2s_increment_counter(
                AddBuflen(FillBuffer(St, St.buflen, in, fill), fill),
                ToWord(BLAKE2S_BLOCKBYTES))),
        BLAKE2S_BLOCKBYTES)

\* (mutant) the counter is advanced after the compression instead of before
UpdateFull_CountAfter(St, in, fill) ==
    SubBuflen(
        ShiftBuffer(
            blake2s_increment_counter(
                CompressBuf(AddBuflen(FillBuffer(St, St.buflen, in, fill), fill)),
                ToWord(BLAKE2S_BLOCKBYTES)),
            BLAKE2S_BLOCKBYTES),
        BLAKE2S_BLOCKBYTES)

\* the branch inlen > fill of the loop body: fill the buffer, count and
\* compress its first block, shift the second block to the front
UpdateFull(St, in, fill) ==
    SubBuflen(
        ShiftBuffer(
            CompressBuf(
                blake2s_increment_counter(
                    AddBuflen(FillBuffer(St, St.buflen, in, fill), fill),
                    ToWord(BLAKE2S_BLOCKBYTES))),
            BLAKE2S_BLOCKBYTES),
        BLAKE2S_BLOCKBYTES)

\* (mutant) the copy forgets the bytes already buffered: memcpy(S->buf, in, inlen)
UpdateLazy_NoOffset(St, in, inlen) == AddBuflen(FillBuffer(St, 0, in, inlen), inlen)

\* (mutant) the bytes are copied but S->buflen is not advanced
UpdateLazy_NoAdvance(St, in, inlen) == FillBuffer(St, St.buflen, in, inlen)

\* the branch inlen <= fill of the loop body
UpdateLazy(St, in, inlen) == AddBuflen(FillBuffer(St, St.buflen, in, inlen), inlen)

\* in is the sequence of the inlen bytes the caller passes
RECURSIVE blake2s_update(_, _, _)
blake2s_update(St, in, inlen) ==
    IF inlen > 0
    THEN IF Overfull(inlen, Fill(St.buflen))
         THEN blake2s_update(UpdateFull(St, in, Fill(St.buflen)),
                             Bytes(in, Fill(St.buflen), inlen - Fill(St.buflen)),
                             inlen - Fill(St.buflen))
         ELSE UpdateLazy(St, in, inlen)
    ELSE St

\* the caller's output buffer before anything is written to it
Unwritten == [i \in 1..BLAKE2S_OUTBYTES |-> -1]

\* the eight chaining words as final() stores them in its temporary buffer
Serialize(h) ==
    store32(h[1]) \o store32(h[2]) \o store32(h[3]) \o store32(h[4]) \o
    store32(h[5]) \o store32(h[6]) \o store32(h[7]) \o store32(h[8])

\* (mutant) the remainder is not moved to the front of the buffer
FinalShift_Missing(St) == St

\* S->buflen -= BLAKE2S_BLOCKBYTES; memcpy(S->buf, S->buf + BLAKE2S_BLOCKBYTES, S->buflen)
FinalShift(St) == ShiftBuffer(St, St.buflen)

\* the first compression of final(), when more than one block is buffered
FinalFirstBlock(St) ==
    IF St.buflen > BLAKE2S_BLOCKBYTES
    THEN FinalShift(
             SubBuflen(
                 CompressBuf(blake2s_increment_counter(St, ToWord(BLAKE2S_BLOCKBYTES))),
                 BLAKE2S_BLOCKBYTES))
    ELSE St

\* blake2s_increment_counter(S, (uint32_t)S->buflen)
CountRemainder(St) == blake2s_increment_counter(St, ToWord(St.buflen))

\* memset(S->buf + S->buflen, 0, 2 * BLAKE2S_BLOCKBYTES - S->buflen)
Padding(St) ==
    Wrote([St EXCEPT !.buf = memset(St.buf, St.buflen, 0, 2 * BLAKE2S_BLOCKBYTES - St.buflen)],
          St.buflen, 2 * BLAKE2S_BLOCKBYTES - St.buflen)

\* the state when final() returns
FinalState(St) ==
    CompressBuf(Padding(blake2s_set_lastblock(CountRemainder(FinalFirstBlock(St)))))

\* memcpy(out, buffer, outlen), buffer holding the serialized chaining words
FinalOutput(St, o, outlen) ==
    [S |-> St, out |-> memcpy(o, 0, Serialize(St.h), outlen), ret |-> RetOk]

\* result: the state afterwards, the caller's buffer afterwards, the return value
blake2s_final(St, o, outlen) == FinalOutput(FinalState(St), o, outlen)

---------------------------------------------------------------------------
(* Initialization *)

\* (!outlen) || (outlen > BLAKE2S_OUTBYTES)
BadOutlen(outlen) == outlen = 0 \/ outlen > BLAKE2S_OUTBYTES

\* (mutant) a zero key length is let through: (!key && keylen) || keylen > BLAKE2S_KEYBYTES
BadKey_ZeroAllowed(key, keylen) == (key.null /\ keylen > 0) \/ keylen > BLAKE2S_KEYBYTES

\* (mutant) the upper bound of the key length is not tested: !key || !keylen
BadKey_NoUpperBound(key, keylen) == key.null \/ keylen = 0

\* !key || !keylen || keylen > BLAKE2S_KEYBYTES
BadKey(key, keylen) == key.null \/ keylen = 0 \/ keylen > BLAKE2S_KEYBYTES

\* St is the caller's state object; it is left alone when the call fails
blake2s_init(St, outlen) ==
    IF BadOutlen(outlen)
    THEN [S |-> St, ret |-> RetErr]
    ELSE [S |-> blake2s_init_param(ParamBlock(outlen, 0)), ret |-> RetOk]

\* the key zero-padded to one block
KeyBlock(key, keylen) ==
    memcpy(Zeros(BLAKE2S_BLOCKBYTES), 0, key.mem, keylen)

\* (mutant) only the key bytes are fed: blake2s_update(S, block, keylen)
blake2s_init_key_ShortUpdate(St, outlen, key, keylen) ==
    IF BadOutlen(outlen)
    THEN [S |-> St, ret |-> RetErr]
    ELSE IF BadKey(key, keylen)
    THEN [S |-> St, ret |-> RetErr]
    ELSE [S |-> blake2s_update(blake2s_init_param(ParamBlock(outlen, keylen)),
                               KeyBlock(key, keylen), keylen),
          ret |-> RetOk]

blake2s_init_key(St, outlen, key, keylen) ==
    IF BadOutlen(outlen)
    THEN [S |-> St, ret |-> RetErr]
    ELSE IF BadKey(key, keylen)
    THEN [S |-> St, ret |-> RetErr]
    ELSE [S |-> blake2s_update(blake2s_init_param(ParamBlock(outlen, keylen)),
                               KeyBlock(key, keylen), BLAKE2S_BLOCKBYTES),
          ret |-> RetOk]

---------------------------------------------------------------------------
(* One-shot hash *)

\* (mutant) the key length of an absent key is kept
EffectiveKeylen_Kept(key, keylen) == keylen

\* if (NULL == key) keylen = 0
EffectiveKeylen(key, keylen) == IF key.null THEN 0 ELSE keylen

\* the init call of blake2s(), chosen by the key length
HashInit(St, outlen, key, kl) ==
    IF kl > 0 THEN blake2s_init_key(St, outlen, key, kl)
              ELSE blake2s_init(St, outlen)

\* (mutant) the whole digest is copied out: blake2s_final(S, out, BLAKE2S_OUTBYTES)
HashRest_FullDigest(i, o, in, outlen, inlen) ==
    IF i.ret < 0
    THEN [S |-> i.S, out |-> o.mem, ret |-> RetErr]
    ELSE blake2s_final(blake2s_update(i.S, in.mem, inlen), o.mem, BLAKE2S_OUTBYTES)

\* blake2s_update(S, in, inlen); blake2s_final(S, out, outlen); i is the
\* result of the init call
HashRest(i, o, in, outlen, inlen) ==
    IF i.ret < 0
    THEN [S |-> i.S, out |-> o.mem, ret |-> RetErr]
    ELSE blake2s_final(blake2s_update(i.S, in.mem, inlen), o.mem, outlen)

\* St is the function's local state object, o the caller's output buffer
blake2s(St, o, in, key, outlen, inlen, keylen) ==
    IF in.null THEN [S |-> St, out |-> o.mem, ret |-> RetErr]
    ELSE IF o.null THEN [S |-> St, out |-> o.mem, ret |-> RetErr]
    ELSE HashRest(HashInit(St, outlen, key, EffectiveKeylen(key, keylen)),
                  o, in, outlen, inlen)

---------------------------------------------------------------------------
(* The caller.  A session is created by one of the init calls, fed the     *)
(* bytes of Message in chunks and finalized; or the one-shot function is   *)
(* called.  The code has no check that keeps a caller from updating a      *)
(* state after it was finalized, so that call is part of the model.        *)

\* the message: the byte at offset i is 'a' + i mod 256, so it starts "abc"
Message(off, n) == [i \in 1..n |-> (96 + off + i) % 256]

\* the caller's key buffer, long enough for every uint8_t keylen
KeyBuf == [i \in 1..255 |-> i]

Keys == {NULL, Ptr(KeyBuf)}

\* chunk lengths of the update calls
ChunkLens == {0, 1, 63, 64, 65, 129}

\* outlen and keylen values of the sessions that are streamed
SessionOutlens == {0, BLAKE2S_OUTBYTES, BLAKE2S_OUTBYTES + 1}
SessionKeylens == {0, 1, BLAKE2S_KEYBYTES, BLAKE2S_KEYBYTES + 1}

\* argument values of the one-shot calls
HashKeylens == {0, 1, BLAKE2S_KEYBYTES, BLAKE2S_KEYBYTES + 1, 255}
HashInlens == {0, 3}

NoArgs == [api |-> "none", outlen |-> 0, key |-> NULL, keylen |-> 0,
           in_null |-> FALSE, out_null |-> FALSE, inlen |-> 0]

Init ==
    /\ bigEndian \in BOOLEAN
    /\ pc = "idle"
    /\ S = ZeroState
    /\ out = Unwritten
    /\ ret = RetOk
    /\ args = NoArgs
    /\ fed = 0
    /\ chunks = "none"

InitCall(outlens) ==
    /\ pc = "idle"
    /\ \E outlen \in outlens :
         /\ \E r \in {blake2s_init(S, outlen)} :
              /\ S' = r.S
              /\ ret' = r.ret
              /\ pc' = IF r.ret = RetOk THEN "streaming" ELSE "failed"
         /\ args' = [NoArgs EXCEPT !.api = "init", !.outlen = outlen]
    /\ UNCHANGED <<bigEndian, out, fed, chunks>>

InitKeyCall(outlens, keylens) ==
    /\ pc = "idle"
    /\ \E outlen \in outlens, key \in Keys, keylen \in keylens :
         /\ \E r \in {blake2s_init_key(S, outlen, key, keylen)} :
              /\ S' = r.S
              /\ ret' = r.ret
              /\ pc' = IF r.ret = RetOk THEN "streaming" ELSE "failed"
         /\ args' = [NoArgs EXCEPT !.api = "init_key", !.outlen = outlen,
                                   !.key = key, !.keylen = keylen]
    /\ UNCHANGED <<bigEndian, out, fed, chunks>>

UpdateCall ==
    /\ pc \in {"streaming", "finalized"}
    /\ \E inlen \in ChunkLens :
         /\ fed + inlen <= MaxFed
         /\ S' = blake2s_update(S, Message(fed, inlen), inlen)
         /\ fed' = fed + inlen
         /\ chunks' = IF inlen = 0 THEN chunks
                      ELSE IF chunks = "none" THEN "one" ELSE "many"
    /\ ret' = RetOk
    /\ pc' = IF pc = "streaming" THEN "streaming" ELSE "reused"
    /\ UNCHANGED <<bigEndian, out, args>>

FinalCall ==
    /\ pc = "streaming"
    /\ \E r \in {blake2s_final(S, out, args.outlen)} :
         /\ S' = r.S
         /\ out' = r.out
         /\ ret' = r.ret
    /\ pc' = "finalized"
    /\ UNCHANGED <<bigEndian, args, fed, chunks>>

HashCall(outlens, keylens, inlens) ==
    /\ pc = "idle"
    /\ \E o_null \in BOOLEAN, i_null \in BOOLEAN, key \in Keys,
          outlen \in outlens, keylen \in keylens, inlen \in inlens :
         /\ \E r \in {blake2s(S, IF o_null THEN NULL ELSE Ptr(out),
                               IF i_null THEN NULL ELSE Ptr(Message(0, inlen)),
                               key, outlen, inlen, keylen)} :
              /\ S' = r.S
              /\ out' = IF o_null THEN out ELSE r.out
              /\ ret' = r.ret
              /\ pc' = IF r.ret = RetOk THEN "returned" ELSE "failed"
              /\ fed' = IF r.ret = RetOk THEN inlen ELSE 0
              /\ chunks' = IF r.ret = RetOk /\ inlen > 0 THEN "one" ELSE "none"
         /\ args' = [api |-> "hash", outlen |-> outlen, key |-> key,
                     keylen |-> keylen, in_null |-> i_null,
                     out_null |-> o_null, inlen |-> inlen]
    /\ UNCHANGED bigEndian

\* sessions and one-shot calls
Next ==
    \/ InitCall(SessionOutlens)
    \/ InitKeyCall(SessionOutlens, SessionKeylens)
    \/ UpdateCall
    \/ FinalCall
    \/ HashCall(SessionOutlens, SessionKeylens, HashInlens)

Spec == Init /\ [][Next]_vars

\* the init calls alone, over every outlen and keylen up to MaxParam
NextInit ==
    \/ InitCall(0..MaxParam)
    \/ InitKeyCall(0..MaxParam, 0..MaxParam)

SpecInit == Init /\ [][NextInit]_vars

\* the one-shot call alone, over every outlen up to MaxHashParam
NextHash == HashCall(0..MaxHashParam, HashKeylens, HashInlens)

SpecHash == Init /\ [][NextHash]_vars

\* The counter step alone, from counter values around the places where a
\* half-word, t[0] or the whole 64-bit counter wraps.  args.t keeps the
\* counter words the run started from, fed the bytes counted since.
CounterLows == {Zero32, W32(0, 65535), W32(32767, 65535), W32(65535, 65535 - 63), AllOnes32}
CounterHighs == {Zero32, W32(0, 65535), AllOnes32}

InitCounter ==
    /\ bigEndian \in BOOLEAN
    /\ pc = "counting"
    /\ \E t0 \in CounterLows, t1 \in CounterHighs :
         /\ S = [blake2s_init0 EXCEPT !.t = <<t0, t1>>]
         /\ args = [api |-> "counter", t |-> <<t0, t1>>]
    /\ out = Unwritten
    /\ ret = RetOk
    /\ fed = 0
    /\ chunks = "none"

\* blake2s_increment_counter(S, inc), inc at most one block as in its callers
CountCall ==
    /\ pc = "counting"
    /\ \E inc \in 0..BLAKE2S_BLOCKBYTES :
         /\ fed + inc <= MaxCounted
         /\ S' = blake2s_increment_counter(S, ToWord(inc))
         /\ fed' = fed + inc
    /\ UNCHANGED <<bigEndian, pc, out, ret, args, chunks>>

NextCounter == CountCall

SpecCounter == InitCounter /\ [][NextCounter]_vars

\* The loop of blake2s_update, one iteration per step, started on a state
\* with any number of bytes buffered.  args keeps the inlen of the call and
\* the buflen the state had when it was called; fed counts the bytes the
\* state was given, those of the call included as they are consumed.
LoopInlens == {0, 1, 64, 65, 129, MaxLoopInlen}

\* the loop variable inlen: input bytes not consumed yet
Remaining == args.buflen + args.inlen - fed

InitLoop ==
    /\ bigEndian \in BOOLEAN
    /\ pc = "loop"
    /\ \E b \in 0..BufBytes, n \in LoopInlens :
         /\ S = blake2s_update(blake2s_init_param(ParamBlock(BLAKE2S_OUTBYTES, 0)),
                               Message(0, b), b)
         /\ args = [api |-> "update", inlen |-> n, buflen |-> b]
         /\ fed = b
    /\ out = Unwritten
    /\ ret = RetOk
    /\ chunks = "none"

\* an iteration through the branch inlen > fill
LoopFull ==
    /\ pc = "loop"
    /\ Remaining > 0
    /\ Overfull(Remaining, Fill(S.buflen))
    /\ S' = UpdateFull(S, Message(fed, Fill(S.buflen)), Fill(S.buflen))
    /\ fed' = fed + Fill(S.buflen)
    /\ UNCHANGED <<bigEndian, pc, out, ret, args, chunks>>

\* an iteration through the branch inlen <= fill
LoopLazy ==
    /\ pc = "loop"
    /\ Remaining > 0
    /\ ~Overfull(Remaining, Fill(S.buflen))
    /\ S' = UpdateLazy(S, Message(fed, Remaining), Remaining)
    /\ fed' = fed + Remaining
    /\ UNCHANGED <<bigEndian, pc, out, ret, args, chunks>>

\* the loop test fails: return 0
LoopExit ==
    /\ pc = "loop"
    /\ ~(Remaining > 0)
    /\ pc' = "done"
    /\ ret' = RetOk
    /\ UNCHANGED <<bigEndian, S, out, args, fed, chunks>>

NextLoop == LoopFull \/ LoopLazy \/ LoopExit

SpecLoop == InitLoop /\ [][NextLoop]_vars

---------------------------------------------------------------------------
(* Helpers of the properties *)

CeilDiv(n, d) == (n + d - 1) \div d

\* what a compression consumed: its block, counter words and flag words
LogView(log) ==
    [i \in 1..Len(log) |-> [block |-> log[i].block, t |-> log[i].t, f |-> log[i].f]]

\* the one-shot call on the whole message of the session, same outlen and key
OneShotOfSession ==
    blake2s(ZeroState, Ptr(Unwritten), Ptr(Message(0, fed)),
            args.key, args.outlen, fed, args.keylen)

---------------------------------------------------------------------------
(* C1 *)

\* C1: a session built by init or init_key, fed its message in any chunks
\* and finalized has performed the same compressions (block, counter, flags)
\* and written the same digest as the one-shot hash of the whole message
\* with the same outlen and key.
C1_IncrementalEquivalence ==
    pc = "finalized" =>
        \E r \in {OneShotOfSession} :
            /\ r.ret = RetOk
            /\ ret = RetOk
            /\ LogView(r.S.log) = LogView(S.log)
            /\ r.S.h = S.h
            /\ r.out = out

\* a keyed session fed 129 bytes in several chunks and finalized
C1_Witness ==
    /\ pc = "finalized"
    /\ args.api = "init_key"
    /\ fed = 129
    /\ chunks = "many"
    /\ Len(S.log) = 4

---------------------------------------------------------------------------
(* C2 *)

\* C2 as stated: init fails exactly when outlen is 0 or above 32; init_key
\* fails exactly when outlen is 0 or above 32, or keylen is above 32, or
\* keylen is above 0 while the key is absent.
C2_AsStated ==
    /\ args.api = "init" =>
         (ret = RetErr <=> (args.outlen = 0 \/ args.outlen > 32))
    /\ args.api = "init_key" =>
         (ret = RetErr <=> \/ args.outlen = 0 \/ args.outlen > 32
                           \/ args.keylen > 32
                           \/ (args.keylen > 0 /\ args.key.null))

\* C2, amended: init fails exactly when outlen is 0 or above 32; init_key
\* fails exactly when outlen is 0 or above 32, or the key is absent, or
\* keylen is 0, or keylen is above 32.  A call returns 0 or -1, and a
\* session exists exactly when it returned 0.
C2_InitErrors ==
    args.api \in {"init", "init_key"} =>
        /\ ret \in {RetOk, RetErr}
        /\ pc = (IF ret = RetOk THEN "streaming" ELSE "failed")
        /\ args.api = "init" =>
             (ret = RetErr <=> (args.outlen = 0 \/ args.outlen > 32))
        /\ args.api = "init_key" =>
             (ret = RetErr <=> \/ args.outlen = 0 \/ args.outlen > 32
                               \/ args.key.null
                               \/ args.keylen = 0 \/ args.keylen > 32)

\* init_key was called with a present key of length 0 and a valid outlen
C2_Witness ==
    /\ args.api = "init_key"
    /\ ~args.key.null
    /\ args.keylen = 0
    /\ args.outlen = 32
    /\ ret = RetErr
    /\ pc = "failed"

---------------------------------------------------------------------------
(* C3 *)

\* a one-shot call that failed did nothing: no compression, out unwritten
HashRefused == ret = RetErr /\ S.log = <<>> /\ out = Unwritten

\* C3 as stated: every one-shot call with outlen = 0, outlen = 33 or
\* keylen = 33, key present or absent, fails without compressing or writing.
C3_AsStated ==
    (args.api = "hash" /\ (args.outlen = 0 \/ args.outlen = 33 \/ args.keylen = 33))
        => HashRefused

\* C3, amended: every one-shot call with outlen = 0, with outlen = 33, or
\* with keylen = 33 and a present key fails without compressing or writing;
\* with an absent key, keylen = 33 is ignored and the call succeeds when in,
\* out and outlen are valid.
C3_InvalidHashParams ==
    args.api = "hash" =>
        /\ (args.outlen = 0 \/ args.outlen = 33 \/ (args.keylen = 33 /\ ~args.key.null))
               => HashRefused
        /\ ( /\ args.keylen = 33 /\ args.key.null
             /\ args.outlen \in 1..32 /\ ~args.in_null /\ ~args.out_null )
               => ret = RetOk

\* a one-shot call with a present key of 33 bytes and everything else valid
C3_Witness ==
    /\ args.api = "hash"
    /\ args.keylen = 33 /\ ~args.key.null
    /\ args.outlen = 32 /\ ~args.in_null /\ ~args.out_null
    /\ HashRefused

---------------------------------------------------------------------------
(* C4 *)

\* init -> update(message) -> final, by hand
UnkeyedByHand(outlen, inlen) ==
    blake2s_final(
        blake2s_update(blake2s_init(ZeroState, outlen).S, Message(0, inlen), inlen),
        Unwritten, outlen)

\* init_key -> update(message) -> final, by hand
KeyedByHand(outlen, key, keylen, inlen) ==
    blake2s_final(
        blake2s_update(blake2s_init_key(ZeroState, outlen, key, keylen).S,
                       Message(0, inlen), inlen),
        Unwritten, outlen)

\* the first keylen bytes of the caller's key, then zeros up to 64 bytes
PaddedKey(keylen) == [i \in 1..64 |-> IF i <= keylen THEN KeyBuf[i] ELSE 0]

\* C4: a one-shot call fails when in or out is absent.  With both present
\* and outlen in 1..32: an absent key (whatever keylen) and a present key
\* with keylen = 0 give exactly the unkeyed result; a present key with
\* keylen > 0 goes through the keyed init (its padded key is the first
\* block compressed, or the call fails when keylen is above 32).
C4_KeyDispatch ==
    args.api = "hash" =>
        /\ (args.in_null \/ args.out_null) => HashRefused
        /\ (~args.in_null /\ ~args.out_null /\ args.outlen \in 1..32) =>
             IF args.key.null \/ args.keylen = 0
             THEN /\ ret = RetOk
                  /\ \E r \in {UnkeyedByHand(args.outlen, args.inlen)} :
                         r.out = out /\ r.S = S
             ELSE IF args.keylen <= 32
             THEN /\ ret = RetOk
                  /\ \E r \in {KeyedByHand(args.outlen, args.key, args.keylen, args.inlen)} :
                         r.out = out /\ r.S = S
                  /\ S.log[1].block = PaddedKey(args.keylen)
             ELSE HashRefused

\* a one-shot call with an absent key and keylen = 255 hashed "abc" unkeyed
C4_Witness ==
    /\ args.api = "hash"
    /\ args.key.null /\ args.keylen = 255
    /\ args.outlen = 32 /\ args.inlen = 3
    /\ ret = RetOk
    /\ Len(S.log) = 1

---------------------------------------------------------------------------
(* C5 *)

\* C5: once Finalize has run on a state, a later Update on that state is
\* rejected or guarded against: it does not append to the buffer, does not
\* advance the counter and does not compress.
C5_SingleUse ==
    [][pc = "finalized" =>
           /\ S'.buflen = S.buflen
           /\ S'.buf = S.buf
           /\ S'.t = S.t
           /\ S'.log = S.log]_vars

---------------------------------------------------------------------------
(* C6 *)

\* a state initialized from the parameter block with key_length = keylen,
\* updated with the padded key followed by the message, and finalized
KeyAsFirstBlock ==
    blake2s_final(
        blake2s_update(blake2s_init_param(ParamBlock(args.outlen, args.keylen)),
                       PaddedKey(args.keylen) \o Message(0, fed), 64 + fed),
        Unwritten, args.outlen)

\* counter words of the value 64
Counter64 == <<ToWord(64), Zero32>>

\* C6: right after a successful init_key the buffer holds the padded key
\* block (buflen = 64), the counter is 0 and nothing was compressed; a keyed
\* session that is finalized has performed exactly the compressions of
\* parameter-block init, update(padded key ++ message), final; the key block
\* is the first block compressed and the only one compressed at counter 64,
\* with the last-block flag set exactly when the message is empty.
C6_KeyIsFirstBlock ==
    (args.api = "init_key" /\ pc \in {"streaming", "finalized"}) =>
        /\ (pc = "streaming" /\ chunks = "none") =>
               /\ S.buflen = 64
               /\ Bytes(S.buf, 0, 64) = PaddedKey(args.keylen)
               /\ S.t = <<Zero32, Zero32>>
               /\ S.log = <<>>
        /\ Len(S.log) >= 1 =>
               /\ S.log[1].block = PaddedKey(args.keylen)
               /\ S.log[1].t = Counter64
               /\ S.log[1].f[1] = (IF pc = "finalized" /\ fed = 0 THEN AllOnes32 ELSE Zero32)
               /\ \A i \in 2..Len(S.log) :
                      S.log[i].block # PaddedKey(args.keylen) /\ S.log[i].t # Counter64
        /\ pc = "finalized" =>
               /\ Len(S.log) = 1 + CeilDiv(fed, 64)
               /\ \E r \in {KeyAsFirstBlock} :
                      /\ LogView(r.S.log) = LogView(S.log)
                      /\ r.S.h = S.h
                      /\ r.out = out

\* a session keyed with a one-byte key, fed 65 bytes in chunks and finalized
C6_Witness ==
    /\ args.api = "init_key"
    /\ args.keylen = 1
    /\ pc = "finalized"
    /\ fed = 65
    /\ chunks = "many"
    /\ Len(S.log) = 3

---------------------------------------------------------------------------
(* C7 *)

\* the one-shot call of the current state repeated with outlen = 32
SameHash32 ==
    blake2s(ZeroState, Ptr(Unwritten), Ptr(Message(0, args.inlen)),
            args.key, 32, args.inlen, args.keylen)

\* the session of the one-shot call of the current state (init with its
\* outlen, update with its input), finalized with all 32 bytes written
SameSession32 ==
    blake2s_final(
        blake2s_update(
            HashInit(ZeroState, args.outlen, args.key,
                     EffectiveKeylen(args.key, args.keylen)).S,
            Message(0, args.inlen), args.inlen),
        Unwritten, 32)

\* C7 as stated: the output of hash(outlen = L) is the first L bytes of the
\* output of hash(outlen = 32) on the same input and key.
C7_AsStated ==
    (args.api = "hash" /\ ret = RetOk) =>
        Bytes(out, 0, args.outlen) = Bytes(SameHash32.out, 0, args.outlen)

\* C7, amended: the output of hash(outlen = L) is the first L bytes of the
\* 32-byte serialization of the final chaining value of its own session
\* (parameter block with digest_length = L), and no byte after the first L
\* is written.
C7_TruncatedSerialization ==
    (args.api = "hash" /\ ret = RetOk) =>
        /\ Bytes(out, 0, args.outlen) = Bytes(SameSession32.out, 0, args.outlen)
        /\ Bytes(out, 0, args.outlen) = Bytes(Serialize(S.h), 0, args.outlen)
        /\ \A i \in (args.outlen + 1)..32 : out[i] = Unwritten[i]

\* a one-shot call wrote a 20-byte digest of "abc"
C7_Witness ==
    /\ args.api = "hash"
    /\ ret = RetOk
    /\ args.outlen = 20
    /\ args.inlen = 3
    /\ out[20] # Unwritten[20]

---------------------------------------------------------------------------
(* C8 *)

\* block i (from 1) of the n-byte message, zero-padded to 64 bytes
ExpectedBlock(i, n) ==
    [j \in 1..64 |-> IF 64 * (i - 1) + j <= n THEN (96 + 64 * (i - 1) + j) % 256 ELSE 0]

\* C8: an unkeyed session fed n bytes in any chunks and finalized has
\* performed max(1, ceil(n / 64)) compressions, the last one at counter n,
\* and compression i consumed the message bytes 64(i-1) .. 64(i-1)+63
\* (zero-padded in the last block).
C8_CompressionCount ==
    (pc = "finalized" /\ args.api = "init") =>
        /\ Len(S.log) = Max(1, CeilDiv(fed, 64))
        /\ S.log[Len(S.log)].t = <<ToWord(fed), Zero32>>
        /\ S.t = <<ToWord(fed), Zero32>>
        /\ \A i \in 1..Len(S.log) : S.log[i].block = ExpectedBlock(i, fed)
        /\ fed = 64 => Len(S.log) = 1
        /\ fed = 128 => Len(S.log) = 2
        /\ fed = 129 => Len(S.log) = 3

\* an unkeyed session fed 129 bytes in several chunks and finalized
C8_Witness ==
    /\ pc = "finalized"
    /\ args.api = "init"
    /\ fed = 129
    /\ chunks = "many"
    /\ Len(S.log) = 3

---------------------------------------------------------------------------
(* C9 *)

\* 508c5e8c327c14e2e1a72ba34eeb452f37458b209ed63a294d999b4c86675982
AbcDigest ==
    << 80, 140,  94, 140,  50, 124,  20, 226, 225, 167,  43, 163,  78, 235,  69,  47,
       55,  69, 139,  32, 158, 214,  58,  41,  77, 153, 155,  76, 134, 103,  89, 130 >>

\* the one-shot unkeyed hash of "abc" with outlen = 32 has returned
HashedAbc ==
    /\ args.api = "hash"
    /\ ~args.in_null /\ ~args.out_null
    /\ args.inlen = 3 /\ args.outlen = 32
    /\ (args.key.null \/ args.keylen = 0)

\* C9: the one-shot unkeyed hash of "abc" with outlen = 32 returns success
\* and writes the digest 508c5e8c...86675982.
C9_KnownAnswer ==
    HashedAbc => (ret = RetOk /\ out = AbcDigest)

\* C9 on the hosts where it holds: built for a little-endian host, the code
\* writes the digest 508c5e8c...86675982 for "abc".
C9_KnownAnswerLittleEndian ==
    (HashedAbc /\ ~bigEndian) => (ret = RetOk /\ out = AbcDigest)

---------------------------------------------------------------------------
(* C10 *)

\* C10: after init or init_key and after every Update and Finalize call (and
\* after a one-shot call), 0 <= buflen <= 128; no copy or fill has written past
\* offset 128 of the buffer; every compression was passed exactly the 64
\* bytes at the front of the buffer, with at most 128 bytes buffered.
C10_BufferBound ==
    /\ S.buflen \in 0..128
    /\ S.hiwater <= 128
    /\ \A i \in 1..Len(S.log) :
           /\ Len(S.log[i].block) = 64
           /\ S.log[i].block = S.log[i].front
           /\ S.log[i].buflen \in 0..128

\* a session whose buffer is exactly full after a compression in Update
C10_Witness ==
    /\ pc = "streaming"
    /\ S.buflen = 128
    /\ S.hiwater = 128
    /\ Len(S.log) = 1

---------------------------------------------------------------------------
(* C11 *)

\* every byte blake2s_update was given in the session, in order: the padded
\* key block of a keyed session, then the message bytes fed so far
SessionStream ==
    IF args.api = "init_key"
    THEN PaddedKey(args.keylen) \o Message(0, fed)
    ELSE Message(0, fed)

\* C11: in a session that was not finalized, once Update was given at least
\* one byte the buffer is non-empty on return; once an Update has compressed,
\* the buffer holds 65..128 bytes on return; the buffered bytes are the last
\* buflen bytes given, everything before them was compressed in 64-byte
\* blocks, and no compression so far had the last-block flag set.
C11_LagByOneBlock ==
    pc = "streaming" =>
        /\ Len(SessionStream) >= 1 => S.buflen >= 1
        /\ Len(S.log) >= 1 => S.buflen \in 65..128
        /\ 64 * Len(S.log) + S.buflen = Len(SessionStream)
        /\ Bytes(S.buf, 0, S.buflen) = Bytes(SessionStream, 64 * Len(S.log), S.buflen)
        /\ \A i \in 1..Len(S.log) : S.log[i].f[1] = Zero32

\* one Update call of 129 bytes has compressed once and kept 65 bytes
C11_Witness ==
    /\ pc = "streaming"
    /\ args.api = "init"
    /\ chunks = "one"
    /\ fed = 129
    /\ Len(S.log) = 1
    /\ S.buflen = 65

---------------------------------------------------------------------------
(* C12 *)

\* the counter words of a byte count below 2^16
CounterOf(n) == <<ToWord(n), Zero32>>

\* is compression k of the log the last one of a finalized session?
IsLastCompression(k) == pc = "finalized" /\ k = Len(S.log)

\* the bytes given to Update so far followed by the next n message bytes
StreamAhead(n) ==
    IF args.api = "init_key"
    THEN PaddedKey(args.keylen) \o Message(0, fed + n)
    ELSE Message(0, fed + n)

\* the full-buffer branch of Update taken from the current state: it reads
\* the counter advanced by 64, compresses the first 64 of the 128 buffered
\* bytes and leaves the second 64 bytes at the front with buflen = 64
FullBranchStep ==
    \E r \in {UpdateFull(S, Message(fed, Fill(S.buflen)), Fill(S.buflen))} :
        /\ Len(r.log) = Len(S.log) + 1
        /\ r.log[Len(r.log)].t = CounterOf(64 * Len(r.log))
        /\ r.log[Len(r.log)].buflen = 128
        /\ r.log[Len(r.log)].block = Bytes(StreamAhead(Fill(S.buflen)), 64 * Len(S.log), 64)
        /\ r.t = CounterOf(64 * Len(r.log))
        /\ r.buflen = 64
        /\ Bytes(r.buf, 0, 64) = Bytes(StreamAhead(Fill(S.buflen)), 64 * Len(r.log), 64)

\* C12: in every session, compression k that is not the last reads the
\* counter 64 * k and consumes bytes 64(k-1) .. 64k-1 of what Update was
\* given (key block included); a compression inside Update runs on a full
\* buffer (128 bytes), leaves the counter at 64 * k and the second 64 bytes
\* at the front with buflen = 64; the last compression reads the total
\* number of bytes given to Update.
C12_CounterAtCompression ==
    pc \in {"streaming", "finalized"} =>
        /\ \A k \in 1..Len(S.log) :
               IF IsLastCompression(k)
               THEN S.log[k].t = CounterOf(Len(SessionStream))
               ELSE /\ S.log[k].t = CounterOf(64 * k)
                    /\ S.log[k].block = Bytes(SessionStream, 64 * (k - 1), 64)
        /\ pc = "streaming" =>
               /\ S.t = CounterOf(64 * Len(S.log))
               /\ \A k \in 1..Len(S.log) : S.log[k].buflen = 128
               /\ FullBranchStep
        /\ pc = "finalized" => S.t = CounterOf(Len(SessionStream))

\* a keyed session of four compressions: key block, two blocks, last byte
C12_Witness ==
    /\ pc = "finalized"
    /\ args.api = "init_key"
    /\ args.keylen = 32
    /\ fed = 129
    /\ Len(S.log) = 4
    /\ S.log[3].t = CounterOf(192)
    /\ S.log[4].t = CounterOf(193)

---------------------------------------------------------------------------
(* C13 *)

NoFlags == <<Zero32, Zero32>>

\* C13: between a successful init or init_key and Finalize both flags are
\* zero in the state and at every compression; in a finalized session the
\* last compression, and no other, read f[0] = all-ones; f[1] was zero at
\* every compression and last_node is false throughout.
C13_FinalizationFlags ==
    pc \in {"streaming", "finalized"} =>
        /\ S.last_node = 0
        /\ S.f[2] = Zero32
        /\ \A k \in 1..Len(S.log) :
               S.log[k].f = (IF IsLastCompression(k) THEN <<AllOnes32, Zero32>> ELSE NoFlags)
        /\ pc = "streaming" => S.f = NoFlags
        /\ pc = "finalized" =>
               /\ S.f = <<AllOnes32, Zero32>>
               /\ Len(S.log) >= 1

\* a finalized session whose Finalize compressed twice: flag clear, then set
C13_Witness ==
    /\ pc = "finalized"
    /\ args.api = "init"
    /\ fed = 65
    /\ chunks = "one"
    /\ Len(S.log) = 2
    /\ S.log[1].f = NoFlags
    /\ S.log[2].f[1] = AllOnes32

---------------------------------------------------------------------------
(* C14 *)

\* byte values tried in each of the four positions
ByteSamples == {0, 1, 128, 255}

\* the word b0 + 2^8 b1 + 2^16 b2 + 2^24 b3
LittleEndianWord(b) == W32(256 * b[4] + b[3], 256 * b[2] + b[1])

\* the bytes of a word, least significant first
LittleEndianBytes(w) == <<w[1] % 256, w[1] \div 256, w[2] % 256, w[2] \div 256>>

\* the chaining words serialized least significant byte first
LittleEndianDigest(h) ==
    LittleEndianBytes(h[1]) \o LittleEndianBytes(h[2]) \o LittleEndianBytes(h[3]) \o
    LittleEndianBytes(h[4]) \o LittleEndianBytes(h[5]) \o LittleEndianBytes(h[6]) \o
    LittleEndianBytes(h[7]) \o LittleEndianBytes(h[8])

\* C14: whatever the host byte order, load32 returns
\* b0 + 2^8 b1 + 2^16 b2 + 2^24 b3, store32 writes the least significant
\* byte first, every compression read its message words that way, and the
\* digest written is the little-endian serialization of the chaining words.
C14_ByteOrder ==
    pc \in {"finalized", "returned"} =>
        /\ \A b \in [1..4 -> ByteSamples] :
               /\ load32(b, 0) = LittleEndianWord(b)
               /\ store32(LittleEndianWord(b)) = b
        /\ MessageWords(S.log[1].block)[1] = LittleEndianWord(Bytes(S.log[1].block, 0, 4))
        /\ Bytes(out, 0, args.outlen) = Bytes(LittleEndianDigest(S.h), 0, args.outlen)

\* C14 on a little-endian host, where it holds.
C14_ByteOrderLittleEndian ==
    ~bigEndian => C14_ByteOrder

---------------------------------------------------------------------------
(* C15 *)

\* the step is a call of blake2s_update
IsUpdateStep == pc \in {"streaming", "finalized"} /\ pc' \in {"streaming", "reused"}

\* C15: an Update call whose input fits the free room of the buffer
\* (inlen <= 128 - buflen, the buffer may become exactly full) compresses
\* nothing, leaves h, t, f and the buffered bytes as they were, copies the
\* input behind them and adds inlen to buflen; with inlen = 0 the state is
\* unchanged; and every Update call returns 0.
C15_LazyAppend ==
    [][IsUpdateStep =>
           /\ ret' = RetOk
           /\ (fed' - fed <= 128 - S.buflen) =>
                  /\ S'.log = S.log
                  /\ S'.h = S.h
                  /\ S'.t = S.t
                  /\ S'.f = S.f
                  /\ S'.last_node = S.last_node
                  /\ S'.buflen = S.buflen + (fed' - fed)
                  /\ S'.buf = memcpy(S.buf, S.buflen, Message(fed, fed' - fed), fed' - fed)
                  /\ Bytes(S'.buf, 0, S.buflen) = Bytes(S.buf, 0, S.buflen)
           /\ (fed' = fed) => S' = S]_vars

\* two lazy appends of 64 bytes filled the buffer exactly, nothing compressed
C15_Witness ==
    /\ pc = "streaming"
    /\ args.api = "init"
    /\ chunks = "many"
    /\ fed = 128
    /\ S.buflen = 128
    /\ S.log = <<>>

---------------------------------------------------------------------------
(* C16 *)

\* the step is a call of blake2s_final
IsFinalStep == pc = "streaming" /\ pc' = "finalized"

\* number of bytes left for the last block when Finalize starts with n buffered
Remainder(n) == IF n > 64 THEN n - 64 ELSE n

\* the remainder bytes followed by zero bytes up to 64
PaddedRemainder(rem) == [j \in 1..64 |-> IF j <= Len(rem) THEN rem[j] ELSE 0]

\* the counter words of St advanced by n, no carry out of the low half-word
CounterPlus(t, n) == <<ToWord(WordVal(t[1]) + n), t[2]>>

\* C16: Finalize on a session state (1) with more than 64 bytes buffered
\* first advances the counter by 64, compresses the first buffered block with
\* f[0] = 0 and keeps the other buflen - 64 bytes (1..64); (2) then compresses,
\* with the counter advanced by the remainder length and f[0] all-ones, the
\* remainder bytes followed by zeros and nothing else; (3) writes the first
\* outlen bytes of the serialized chaining words and no other byte of out.
\* The remainder is empty only when Update was never given a byte.
C16_FinalizeSteps ==
    [][IsFinalStep =>
           /\ Len(S'.log) = Len(S.log) + (IF S.buflen > 64 THEN 2 ELSE 1)
           /\ S.buflen > 64 =>
                  /\ S'.log[Len(S.log) + 1].t = CounterPlus(S.t, 64)
                  /\ S'.log[Len(S.log) + 1].f = <<Zero32, Zero32>>
                  /\ S'.log[Len(S.log) + 1].block = Bytes(S.buf, 0, 64)
                  /\ Remainder(S.buflen) \in 1..64
           /\ S'.log[Len(S'.log)].t = CounterPlus(S.t, S.buflen)
           /\ S'.log[Len(S'.log)].f = <<AllOnes32, Zero32>>
           /\ S'.log[Len(S'.log)].block =
                  PaddedRemainder(Bytes(S.buf, S.buflen - Remainder(S.buflen), Remainder(S.buflen)))
           /\ S'.log[Len(S'.log)].block =
                  PaddedRemainder(Bytes(SessionStream,
                                        Len(SessionStream) - Remainder(S.buflen),
                                        Remainder(S.buflen)))
           /\ S'.t = CounterPlus(S.t, S.buflen)
           /\ S'.buflen = Remainder(S.buflen)
           /\ Remainder(S.buflen) \in 0..64
           /\ (Remainder(S.buflen) = 0) => (fed = 0 /\ args.api = "init")
           /\ ret' = RetOk
           /\ Bytes(out', 0, args.outlen) = Bytes(Serialize(S'.h), 0, args.outlen)
           /\ \A i \in (args.outlen + 1)..Len(out) : out'[i] = out[i]]_vars

\* Finalize found a full buffer: it compressed the first block, then the
\* second block of 64 bytes as the last one
C16_Witness ==
    /\ pc = "finalized"
    /\ args.api = "init"
    /\ fed = 128
    /\ chunks = "many"
    /\ Len(S.log) = 2
    /\ S.buflen = 64
    /\ out # Unwritten

---------------------------------------------------------------------------
(* C17 *)

\* digest_length, key_length, fanout = 1, depth = 1, every other byte zero
ExpectedParamBlock(outlen, keylen) ==
    [i \in 1..32 |-> IF i = 1 THEN outlen ELSE IF i = 2 THEN keylen ELSE IF i \in {3, 4} THEN 1 ELSE 0]

\* the word outlen + 2^8 keylen + 2^16 + 2^24
ParamWord0(outlen, keylen) == W32(256 * 1 + 1, 256 * keylen + outlen)

\* the session was just created: no Update call yet
JustInitialized == pc = "streaming" /\ chunks = "none" /\ fed = 0

\* C17: right after a successful init or init_key the parameter block is
\* digest_length = outlen, key_length = keylen, fanout = depth = 1, rest
\* zero; h[0] = IV[0] XOR (outlen + 2^8 keylen + 2^16 + 2^24), h[i] = IV[i]
\* for the other words; t = (0,0), f = (0,0), last_node false, nothing
\* compressed, buflen = 0 (64 after init_key); and the state is the one a
\* second init with the same arguments gives.
C17_InitialState ==
    JustInitialized =>
        /\ ParamBlock(args.outlen, args.keylen) = ExpectedParamBlock(args.outlen, args.keylen)
        /\ S.h[1] = Xor32(blake2s_IV[1], ParamWord0(args.outlen, args.keylen))
        /\ \A i \in 2..8 : S.h[i] = blake2s_IV[i]
        /\ S.t = <<Zero32, Zero32>>
        /\ S.f = <<Zero32, Zero32>>
        /\ S.last_node = 0
        /\ S.log = <<>>
        /\ S.buflen = (IF args.api = "init_key" THEN 64 ELSE 0)
        /\ S = (IF args.api = "init_key"
                THEN blake2s_init_key(ZeroState, args.outlen, args.key, args.keylen).S
                ELSE blake2s_init(ZeroState, args.outlen).S)

\* C17 on a little-endian host, where it holds.
C17_InitialStateLittleEndian ==
    ~bigEndian => C17_InitialState

---------------------------------------------------------------------------
(* C18 *)

\* the 64-bit counter t[0] + 2^32 t[1] as four 16-bit digits, lowest first
Digits(t) == <<t[1][1], t[1][2], t[2][1], t[2][2]>>

\* digit-wise addition of n < 2^16 to a 64-bit value, modulo 2^64
RECURSIVE AddDigits(_, _)
AddDigits(d, n) ==
    IF d = <<>> THEN <<>>
    ELSE <<(d[1] + n) % 65536>> \o AddDigits(Tail(d), (d[1] + n) \div 65536)

\* does t0 + inc pass 2^32?
Wraps(t0, inc) == t0[2] = 65535 /\ t0[1] + inc >= 65536

\* C18: for the counter words t[0], t[1] and an increment inc in 0..64, the
\* counter step sets t[0] to (t[0] + inc) mod 2^32, adds 1 to t[1] modulo
\* 2^32 exactly when that addition wrapped, and touches nothing else; so
\* t[0] + 2^32 t[1] is the starting value plus the bytes counted, mod 2^64.
C18_CounterArithmetic ==
    [][pc = "counting" =>
           /\ <<S'.t[1][1], S'.t[1][2]>> = SubSeq(AddDigits(<<S.t[1][1], S.t[1][2]>>, fed' - fed), 1, 2)
           /\ S'.t[2] = (IF Wraps(S.t[1], fed' - fed)
                         THEN SubSeq(AddDigits(S.t[2], 1), 1, 2)
                         ELSE S.t[2])
           /\ Digits(S'.t) = AddDigits(Digits(args.t), fed')
           /\ S' = [S EXCEPT !.t = S'.t]]_vars

\* the whole 64-bit counter wrapped: from 2^64 - 64 to 0 by one step of 64
C18_Witness ==
    /\ pc = "counting"
    /\ args.t = <<W32(65535, 65535 - 63), AllOnes32>>
    /\ fed = 64
    /\ S.t = <<Zero32, Zero32>>

---------------------------------------------------------------------------
(* C19 *)

\* compressions an Update call performs when buflen + inlen = total
ExpectedCompressions(total) == IF total > 128 THEN CeilDiv(total, 64) - 2 ELSE 0

\* the call has returned with all its input consumed, after exactly the
\* expected number of compressions, with every byte either compressed or
\* still buffered
UpdateReturned ==
    /\ pc = "done"
    /\ ret = RetOk
    /\ Remaining = 0
    /\ Len(S.log) = ExpectedCompressions(args.buflen + args.inlen)
    /\ 64 * Len(S.log) + S.buflen = args.buflen + args.inlen
    /\ Bytes(S.buf, 0, S.buflen) = Message(64 * Len(S.log), S.buflen)
    /\ \A k \in 1..Len(S.log) : S.log[k].block = Message(64 * (k - 1), 64)

\* a natural number that every iteration of the loop makes smaller
Variant == (BufBytes + 1) * Remaining + S.buflen

\* the step model of the loop and the function blake2s_update agree
LoopAgreesWithCall ==
    pc = "done" =>
        S = blake2s_update(
                blake2s_update(blake2s_init_param(ParamBlock(BLAKE2S_OUTBYTES, 0)),
                               Message(0, args.buflen), args.buflen),
                Message(args.buflen, args.inlen), args.inlen)

\* C19: from every buflen in 0..128 and for every input length, the loop of
\* Update terminates: each iteration strictly decreases a natural-number
\* variant (also from buflen = 128, where the first iteration copies nothing
\* and only compresses, shrinking the buffer to 64) and never consumes more
\* than is left; and when the loop exits all input is consumed after exactly
\* ceil((buflen + inlen) / 64) - 2 compressions if buflen + inlen > 128 and
\* none otherwise.
C19_UpdateTerminates ==
    [][pc = "loop" =>
           /\ Remaining' >= 0
           /\ S'.buflen \in 0..BufBytes
           /\ (pc' = "loop") => Variant' < Variant
           /\ (pc' = "loop" /\ S.buflen = BufBytes /\ Remaining > 0) =>
                  (fed' = fed /\ S'.buflen = 64 /\ Len(S'.log) = Len(S.log) + 1)
           /\ (pc' = "done") => UpdateReturned']_vars

\* called with a full buffer, the first iteration has compressed and left
\* 64 bytes buffered without consuming any input
C19_Witness ==
    /\ pc = "loop"
    /\ args.buflen = 128
    /\ args.inlen = 65
    /\ fed = 128
    /\ Len(S.log) = 1
    /\ S.buflen = 64

=============================================================================
